---- MODULE Spec2Model ----
(***************************************************************************)
(* The BusTub buffer pool and hash index, modelled from                    *)
(* src/buffer/buffer_pool_manager_instance.cpp, src/buffer/lru_replacer.cpp,*)
(* src/buffer/parallel_buffer_pool_manager.cpp,                            *)
(* src/container/hash/extendible_hash_table.cpp and                        *)
(* src/storage/page/hash_table_bucket_page.cpp.                            *)
(*                                                                         *)
(* Spec, SpecD, SpecRW: one BufferPoolManagerInstance and a caller of      *)
(*   new_page / fetch_page / unpin_page / flush_page / flush_all_pages /   *)
(*   delete_page (any caller; a disciplined one; one that only reads and   *)
(*   writes pages).                                                        *)
(* SpecMT:  two threads inside fetch_page of one instance.                 *)
(* SpecP:   the ParallelBufferPoolManager and a disciplined caller.        *)
(* SpecLRU: an LRUReplacer driven on its own.                              *)
(* SpecH:   the ExtendibleHashTable on a buffer pool instance.             *)
(* SpecL, SpecLF: threads calling the ParallelBufferPoolManager and its    *)
(*   instances concurrently, step by step through the latches; SpecLF     *)
(*   adds fair scheduling.                                                 *)
(***************************************************************************)
EXTENDS Integers, Sequences, FiniteSets, TLC

\* ------------------------------------------------------------------ bounds
PoolSize == 2        \* pool_size_: number of frames
MaxPageId == 3       \* page ids range over 0..MaxPageId
MaxData == 1         \* a page's bytes are abstracted to one value 0..MaxData
MaxPin == 2          \* cap on pin_count_ and on the caller's pins per page
MaxFree == 3         \* cap on the length of free_list_
MaxCalls == 7        \* cap on the number of calls a disciplined caller makes
MaxAnyCalls == 5     \* cap on the number of calls an arbitrary caller makes
NumPoolInstances == 2  \* num_instances of the ParallelBufferPoolManager
PoolInstanceSize == 1  \* pool_size of the ParallelBufferPoolManager: frames per instance
MaxPoolCalls == 8    \* cap on the number of calls made on the ParallelBufferPoolManager
RepSize == 3          \* num_pages of the LRUReplacer driven on its own
MaxRepCalls == 6      \* cap on the number of calls made on that replacer
MaxKey == 1           \* hash-table keys range over 0..MaxKey
MaxValue == 1         \* hash-table values range over 0..MaxValue
BucketArraySize == 2  \* BUCKET_ARRAY_SIZE: slots of a bucket page (at most 8: one bitmap byte)
MaxDepth == 2         \* cap on the directory's global depth
MaxHtCalls == 5       \* cap on the number of calls made on the hash table
MaxSetup == 4        \* cap on the calls made before two threads fetch concurrently
MaxLatchCalls == 3   \* cap on the calls threads make on the pool concurrently

\* ------------------------------------------------------- program constants
INVALID_PAGE_ID == -1
NumInstances == 1    \* num_instances_ of the single-instance constructor
InstanceIndex == 0   \* instance_index_ of the single-instance constructor

NoFrame == -1        \* nullptr / "no frame returned"
Frames == 0 .. (PoolSize - 1)
PageIds == 0 .. MaxPageId
Data == 0 .. MaxData
Threads == {1, 2}

VARIABLES
  bpm,      \* the BufferPoolManagerInstance, its replacer, the disk
  last,     \* the call that was made last and what it returned
  pins,     \* per page id: successful new/fetch returns minus successful unpins
  handle,   \* per page id: the frame pointer the caller was last handed
  pending,  \* per page id: bytes the caller wrote and has not yet released
  wbytes,   \* per page id: bytes released with unpin_page(id, true)
  calls,    \* number of calls made so far
  thr,      \* two threads inside fetch_page of the instance, and its latch_
  pool,     \* the ParallelBufferPoolManager: its instances and next_instance_
  rep,      \* an LRUReplacer driven on its own
  ht,       \* the ExtendibleHashTable and the pages it uses
  lat       \* threads calling the pool concurrently, and who holds each latch_

vars == <<bpm, last, pins, handle, pending, wbytes, calls, thr, pool, rep, ht, lat>>

NoData == MaxData + 1   \* "no bytes": a value outside Data

\* ------------------------------------------------------------ LRUReplacer
\* lru_ is a std::list: front (index 1) = most recently unpinned,
\* back = victim.  lru_map_ is its index and holds exactly its elements.
InLru(lru, f) == \E i \in 1 .. Len(lru) : lru[i] = f

\* Victim taking the most recently unpinned frame: the behaviour C15 rules out.
Victim_Front(lru) ==
  IF lru = << >>
  THEN [ok |-> FALSE, frame |-> NoFrame, lru |-> lru]
  ELSE [ok |-> TRUE, frame |-> lru[1], lru |-> SubSeq(lru, 2, Len(lru))]

Victim(lru) ==
  IF lru = << >>
  THEN [ok |-> FALSE, frame |-> NoFrame, lru |-> lru]
  ELSE [ok |-> TRUE, frame |-> lru[Len(lru)], lru |-> SubSeq(lru, 1, Len(lru) - 1)]

Without(q, f) == SelectSeq(q, LAMBDA x : x # f)

ReplacerPin(lru, f) ==
  IF lru = << >> THEN lru
  ELSE IF ~InLru(lru, f) THEN lru
  ELSE Without(lru, f)

\* Unpin moving a tracked frame to the front: what C16 as stated asks for.
ReplacerUnpin_Refresh(lru, f, max_page_nums) ==
  IF InLru(lru, f) THEN <<f>> \o Without(lru, f)
  ELSE IF Len(lru) >= max_page_nums THEN lru
  ELSE <<f>> \o lru

ReplacerUnpin(lru, f, max_page_nums) ==
  IF Len(lru) >= max_page_nums THEN lru
  ELSE IF InLru(lru, f) THEN lru
  ELSE <<f>> \o lru

\* ------------------------------------------------------------ DiskManager
WritePage(disk, page_id, data) ==
  IF page_id \in DOMAIN disk THEN [disk EXCEPT ![page_id] = data] ELSE disk

ReadPage(disk, page_id) == disk[page_id]

\* ------------------------------------------------------------- page table
\* std::unordered_map<page_id_t, frame_id_t>
Resident(pt, page_id) == page_id \in DOMAIN pt

Erase(pt, page_id) == [k \in (DOMAIN pt) \ {page_id} |-> pt[k]]

Assign(pt, page_id, f) ==
  [k \in (DOMAIN pt) \cup {page_id} |-> IF k = page_id THEN f ELSE pt[k]]

\* operator[] used as an rvalue: a missing key is inserted with frame 0
Subscript(pt, page_id) ==
  IF Resident(pt, page_id) THEN pt ELSE Assign(pt, page_id, 0)

EmptyPage == [page_id |-> INVALID_PAGE_ID, pin_count |-> 0, is_dirty |-> FALSE, data |-> 0]

LoadedPage(page_id, data) ==
  [page_id |-> page_id, pin_count |-> 1, is_dirty |-> FALSE, data |-> data]

\* ----------------------------------------------- BufferPoolManagerInstance
\* The constructor, for instance instance_index of num_instances.
BpmInstance(pool_size, num_instances, instance_index) ==
  [ pool_size    |-> pool_size,
    num_instances |-> num_instances,
    page_table   |-> << >>,
    free_list    |-> [i \in 1 .. pool_size |-> i - 1],
    pages        |-> [f \in 0 .. (pool_size - 1) |-> EmptyPage],
    lru          |-> << >>,
    next_page_id |-> instance_index,
    disk         |-> [p \in PageIds |-> 0],
    deallocated  |-> {} ]

InitBpm == BpmInstance(PoolSize, NumInstances, InstanceIndex)

\* AllocatePage advancing by one, as if the instance were alone: the
\* behaviour C23 rules out.
AllocatePage_Stride1(b) ==
  [page_id |-> b.next_page_id, next_page_id |-> b.next_page_id + 1]

AllocatePage(b) ==
  [page_id |-> b.next_page_id, next_page_id |-> b.next_page_id + b.num_instances]

\* The condition ValidatePageId asserts, for instance instance_index.
ValidatePageId(page_id, num_instances, instance_index) ==
  page_id % num_instances = instance_index

DeallocatePage(b, page_id) == b.deallocated \cup {page_id}

FlushPgImp(b, page_id) ==
  LET pt1 == Subscript(b.page_table, page_id)
      frame_id == pt1[page_id]
  IN [ bpm |-> [b EXCEPT !.page_table = Erase(pt1, page_id),
                         !.disk = WritePage(b.disk, page_id, b.pages[frame_id].data)],
       ok |-> TRUE, frame |-> NoFrame ]

\* The loop erases the element its iterator points at and then advances the
\* iterator: S is the set of entries the loop got to visit.
FlushAllPgsImp(b, S) ==
  [ bpm |-> [b EXCEPT
       !.page_table = [k \in (DOMAIN b.page_table) \ S |-> b.page_table[k]],
       !.disk = [p \in DOMAIN b.disk |->
                   IF p \in S THEN b.pages[b.page_table[p]].data ELSE b.disk[p]]],
    ok |-> TRUE, frame |-> NoFrame ]

NewPgImp(b) ==
  LET a == AllocatePage(b)
      page_id == a.page_id
      b0 == [b EXCEPT !.next_page_id = a.next_page_id]
  IN IF b.free_list # << >>
     THEN LET frame_id == Head(b.free_list)
          IN [ bpm |-> [b0 EXCEPT
                 !.free_list = Tail(b.free_list),
                 !.page_table = Assign(b.page_table, page_id, frame_id),
                 !.pages[frame_id] = LoadedPage(page_id, ReadPage(b.disk, page_id))],
               ok |-> TRUE, frame |-> frame_id, page_id |-> page_id ]
     ELSE LET v == Victim(b.lru)
          IN IF v.ok
             THEN LET replace_page == b.pages[v.frame]
                      disk1 == IF replace_page.is_dirty
                               THEN WritePage(b.disk, replace_page.page_id, replace_page.data)
                               ELSE b.disk
                  IN [ bpm |-> [b0 EXCEPT
                         !.lru = v.lru,
                         !.disk = disk1,
                         !.page_table = Erase(b.page_table, replace_page.page_id),
                         !.pages[v.frame] = LoadedPage(page_id, ReadPage(disk1, page_id))],
                       ok |-> TRUE, frame |-> v.frame, page_id |-> page_id ]
             ELSE [ bpm |-> b0, ok |-> FALSE, frame |-> NoFrame, page_id |-> page_id ]

\* FetchPgImp when the page table has page_id ...
FetchHit(b, page_id) ==
  LET frame_id == b.page_table[page_id]
  IN [ bpm |-> [b EXCEPT !.pages[frame_id].pin_count = @ + 1],
       ok |-> TRUE, frame |-> frame_id ]

\* ... and when it does not.
FetchMiss(b, page_id) ==
  IF b.free_list # << >>
  THEN LET frame_id == Head(b.free_list)
       IN [ bpm |-> [b EXCEPT
              !.free_list = Tail(b.free_list),
              !.page_table = Assign(b.page_table, page_id, frame_id),
              !.pages[frame_id] = LoadedPage(page_id, ReadPage(b.disk, page_id))],
            ok |-> TRUE, frame |-> frame_id ]
  ELSE LET v == Victim(b.lru)
       IN IF v.ok
          THEN LET replace_page == b.pages[v.frame]
                   replace_page_id == replace_page.page_id
                   disk1 == IF replace_page.is_dirty
                            THEN WritePage(b.disk, replace_page_id, replace_page.data)
                            ELSE b.disk
               IN [ bpm |-> [b EXCEPT
                      !.lru = v.lru,
                      !.disk = disk1,
                      !.page_table = Assign(Erase(b.page_table, replace_page_id), page_id, v.frame),
                      !.pages[v.frame] = LoadedPage(page_id, ReadPage(disk1, page_id))],
                    ok |-> TRUE, frame |-> v.frame ]
          ELSE [ bpm |-> b, ok |-> FALSE, frame |-> NoFrame ]

FetchPgImp(b, page_id) ==
  IF Resident(b.page_table, page_id) THEN FetchHit(b, page_id) ELSE FetchMiss(b, page_id)

DeletePgImp(b, page_id) ==
  LET b0 == [b EXCEPT !.deallocated = DeallocatePage(b, page_id)]
  IN IF ~Resident(b.page_table, page_id)
     THEN [ bpm |-> b0, ok |-> TRUE, frame |-> NoFrame ]
     ELSE LET frame_id == b.page_table[page_id]
          IN IF b.pages[frame_id].pin_count > 0
             THEN [ bpm |-> b0, ok |-> FALSE, frame |-> NoFrame ]
             ELSE [ bpm |-> [b0 EXCEPT
                      !.page_table = Erase(b.page_table, page_id),
                      !.pages[frame_id] = EmptyPage,
                      !.free_list = Append(b.free_list, frame_id)],
                    ok |-> TRUE, frame |-> NoFrame ]

\* UnpinPgImp with is_dirty_ assigned from the argument instead of being set
\* only when the argument is true: the behaviour C11 rules out.
UnpinPgImp_Assign(b, page_id, is_dirty) ==
  LET pt1 == Subscript(b.page_table, page_id)
      frame_id == pt1[page_id]
      b0 == [b EXCEPT !.page_table = pt1]
  IN IF b.pages[frame_id].pin_count <= 0
     THEN [ bpm |-> b0, ok |-> FALSE, frame |-> NoFrame ]
     ELSE [ bpm |-> [b0 EXCEPT
              !.lru = ReplacerUnpin(b.lru, frame_id, b.pool_size),
              !.pages[frame_id].is_dirty = is_dirty],
            ok |-> TRUE, frame |-> NoFrame ]

UnpinPgImp(b, page_id, is_dirty) ==
  LET pt1 == Subscript(b.page_table, page_id)
      frame_id == pt1[page_id]
      b0 == [b EXCEPT !.page_table = pt1]
  IN IF b.pages[frame_id].pin_count <= 0
     THEN [ bpm |-> b0, ok |-> FALSE, frame |-> NoFrame ]
     ELSE [ bpm |-> [b0 EXCEPT
              !.lru = ReplacerUnpin(b.lru, frame_id, b.pool_size),
              !.pages[frame_id].is_dirty = (@ \/ is_dirty)],
            ok |-> TRUE, frame |-> NoFrame ]

\* ----------------------------------------------- ParallelBufferPoolManager
\* The constructor: num_instances instances, each of pool_size frames.
\* new_calls counts the calls of NewPgImp made so far, start is the instance
\* the last of them tried first.
ParallelBufferPoolManager(num_instances, pool_size) ==
  [ num_instances |-> num_instances,
    start         |-> 0,
    next_instance |-> 0,
    managers      |-> [i \in 0 .. (num_instances - 1) |-> BpmInstance(pool_size, num_instances, i)],
    new_calls     |-> 0 ]

\* The index of the instance responsible for page_id.
GetBufferPoolManager(P, page_id) == page_id % P.num_instances

\* n more rounds of the loop of NewPgImp; page_id is what *page_id holds.
RECURSIVE TryInstances(_, _, _)
TryInstances(P, n, page_id) ==
  IF n = 0
  THEN [ pool |-> P, ok |-> FALSE, frame |-> NoFrame, page_id |-> page_id ]
  ELSE LET i == P.next_instance
           r == NewPgImp(P.managers[i])
           P1 == [P EXCEPT !.managers[i] = r.bpm,
                           !.next_instance = (i + 1) % P.num_instances]
       IN IF r.ok
          THEN [ pool |-> P1, ok |-> TRUE, frame |-> r.frame, page_id |-> r.page_id ]
          ELSE TryInstances(P1, n - 1, r.page_id)

\* NewPgImp giving up after the first instance: the behaviour C14 rules out.
PoolNewPgImp_OneTry(P) ==
  TryInstances([P EXCEPT !.new_calls = @ + 1, !.start = P.next_instance], 1, INVALID_PAGE_ID)

PoolNewPgImp(P) ==
  TryInstances([P EXCEPT !.new_calls = @ + 1, !.start = P.next_instance], P.num_instances, INVALID_PAGE_ID)

\* The calls that are handed to the responsible instance.
Route(P, page_id, r) ==
  [ pool |-> [P EXCEPT !.managers[GetBufferPoolManager(P, page_id)] = r.bpm],
    ok |-> r.ok, frame |-> r.frame ]

PoolFetchPgImp(P, page_id) ==
  Route(P, page_id, FetchPgImp(P.managers[GetBufferPoolManager(P, page_id)], page_id))

PoolUnpinPgImp(P, page_id, is_dirty) ==
  Route(P, page_id, UnpinPgImp(P.managers[GetBufferPoolManager(P, page_id)], page_id, is_dirty))

PoolFlushPgImp(P, page_id) ==
  Route(P, page_id, FlushPgImp(P.managers[GetBufferPoolManager(P, page_id)], page_id))

PoolDeletePgImp(P, page_id) ==
  Route(P, page_id, DeletePgImp(P.managers[GetBufferPoolManager(P, page_id)], page_id))

\* The sets of entries the loop of FlushAllPgsImp of instance b may get to
\* visit: any, but at least one when there is one.
Visited(b) ==
  {S \in SUBSET (DOMAIN b.page_table) : (S = {}) <=> (DOMAIN b.page_table = {})}

\* The pools FlushAllPgsImp may leave, having still to flush instances i, i+1, ...
RECURSIVE PoolFlushAllPgsImp(_, _)
PoolFlushAllPgsImp(P, i) ==
  IF i = P.num_instances
  THEN {P}
  ELSE UNION { PoolFlushAllPgsImp(
                 [P EXCEPT !.managers[i] = FlushAllPgsImp(P.managers[i], S).bpm], i + 1)
               : S \in Visited(P.managers[i]) }

\* ---------------------------------------------------- HashTableBucketPage
Keys == 0 .. MaxKey
Values == 0 .. MaxValue
Slots == 0 .. (BucketArraySize - 1)

\* A bucket page: the bitmaps as sets of slots, array_ as slot -> <<key, value>>.
IsOccupied(bk, bucket_idx) == bucket_idx \in bk.occupied
IsReadable(bk, bucket_idx) == bucket_idx \in bk.readable

\* "occupied_[i] | (1 << b);" and "readable_[i] | (1 << b);" compute a value
\* and drop it; "occupied_[i] & (0 << b);" likewise.
SetOccupied(bk, bucket_idx) == bk
SetReadable(bk, bucket_idx) == bk
RemoveAt(bk, bucket_idx) == bk

RECURSIVE Pow2(_)
Pow2(n) == IF n = 0 THEN 1 ELSE 2 * Pow2(n - 1)

\* The bitmap byte holding the bits of S (all slots are in byte 0).
RECURSIVE Byte(_)
Byte(S) == IF S = {} THEN 0 ELSE LET b == CHOOSE x \in S : TRUE IN Pow2(b) + Byte(S \ {b})

ASCII_ZERO == 48
IsFull(bk) ==
  ~(Byte(bk.occupied) - ASCII_ZERO # 255 \/ Byte(bk.readable) - ASCII_ZERO # 255)

\* The loop of Insert from slot bucket_idx on.
RECURSIVE InsertFrom(_, _, _, _)
InsertFrom(bk, bucket_idx, key, value) ==
  IF bucket_idx = BucketArraySize
  THEN [bucket |-> bk, ok |-> TRUE]
  ELSE LET bk1 == IF \/ ~IsOccupied(bk, bucket_idx)
                     \/ (IsOccupied(bk, bucket_idx) /\ ~IsReadable(bk, bucket_idx))
                  THEN [SetReadable(SetOccupied(bk, bucket_idx), bucket_idx)
                          EXCEPT !.array[bucket_idx] = <<key, value>>]
                  ELSE bk
       IN IF IsOccupied(bk1, bucket_idx) /\ bk1.array[bucket_idx] = <<key, value>>
          THEN [bucket |-> bk1, ok |-> FALSE]
          ELSE InsertFrom(bk1, bucket_idx + 1, key, value)

BucketInsert(bk, key, value) ==
  IF IsFull(bk) THEN [bucket |-> bk, ok |-> FALSE] ELSE InsertFrom(bk, 0, key, value)

\* GetValue is "return false;": nothing is appended to the result.
BucketGetValue(bk, key) == [ok |-> FALSE, result |-> {}]

\* --------------------------------------------------- HashTableDirectoryPage
DirIndexes == 0 .. (Pow2(MaxDepth) - 1)
GetGlobalDepthMask(dir) == Pow2(dir.global_depth) - 1
GetLocalDepth(dir, i) == dir.local_depths[i]

\* Doubles the directory: entries [0, size) are copied to [size, 2 size).
IncrGlobalDepth(dir) ==
  LET size == Pow2(dir.global_depth)
      Src(i) == IF i >= size /\ i < 2 * size THEN i - size ELSE i
  IN [ global_depth    |-> dir.global_depth + 1,
       local_depths    |-> [i \in DirIndexes |-> dir.local_depths[Src(i)]],
       bucket_page_ids |-> [i \in DirIndexes |-> dir.bucket_page_ids[Src(i)]] ]

\* ------------------------------------------------------ ExtendibleHashTable
\* The injected hash function; its values here fit in 32 bits, so the
\* downcast changes nothing.
Hash(key) == 5 * key + 3

\* x & mask for a mask of the form 2^d - 1.
KeyToDirectoryIndex(key, dir) == Hash(key) % (GetGlobalDepthMask(dir) + 1)
KeyToPageId(key, dir) == dir.bucket_page_ids[KeyToDirectoryIndex(key, dir)]

\* The bytes of a page that nobody has written as a bucket page.
ZeroDirectory ==
  [ global_depth    |-> 0,
    local_depths    |-> [i \in DirIndexes |-> 0],
    bucket_page_ids |-> [i \in DirIndexes |-> 0] ]

\* pins: per page id, the table's NewPage/FetchPage calls that returned a
\* page minus its UnpinPage calls that returned true.
\* present: the pairs whose insert returned true and which no remove followed.
\* removed: the pairs remove was last called with.
InitHt ==
  [ constructed       |-> FALSE,
    directory_page_id |-> INVALID_PAGE_ID,
    dir               |-> ZeroDirectory,
    buckets           |-> << >>,
    pins              |-> [p \in PageIds |-> 0],
    present           |-> {},
    removed           |-> {} ]

\* ------------------------------------------ ExtendibleHashTable operations
\* The constructor, on buffer pool b; bytes is what page 0 holds, seen as a
\* bucket page.  NewPage and FetchPage are both called on the directory page
\* and neither is followed by UnpinPage; no bucket page is allocated.
HashTableConstructor(b, h, bytes) ==
  LET n == NewPgImp(b)
      f == FetchPgImp(n.bpm, n.page_id)
  IN [ bpm |-> f.bpm,
       ok  |-> n.ok /\ f.ok,
       ht  |-> [h EXCEPT
                 !.constructed = TRUE,
                 !.directory_page_id = n.page_id,
                 !.dir = [ZeroDirectory EXCEPT !.global_depth = 1],
                 !.buckets = [q \in {0} |-> bytes],
                 !.pins[n.page_id] = 2] ]

\* Returns dir_page_ without calling the buffer pool.
FetchDirectoryPage(h) == h.dir

\* FetchPage(bucket_page_id), the result taken for a bucket page.
FetchBucketPage(b, h, bucket_page_id) ==
  LET f == FetchPgImp(b, bucket_page_id)
  IN [ bpm |-> f.bpm, ok |-> f.ok,
       ht  |-> IF f.ok THEN [h EXCEPT !.pins[bucket_page_id] = @ + 1] ELSE h ]

\* ok is the value of the asserted UnpinPage call.
GetGlobalDepth(b, h) ==
  LET dir_page == FetchDirectoryPage(h)
      u == UnpinPgImp(b, h.directory_page_id, FALSE)
  IN [ bpm |-> u.bpm, ok |-> u.ok, global_depth |-> dir_page.global_depth,
       ht  |-> IF u.ok THEN [h EXCEPT !.pins[h.directory_page_id] = @ - 1] ELSE h ]

\* fetched: no FetchPage returned nullptr.
HashTableGetValue(b, h, key) ==
  LET page_directory == FetchDirectoryPage(h)
      bucket_page_id == KeyToPageId(key, page_directory)
      fb == FetchBucketPage(b, h, bucket_page_id)
      g == BucketGetValue(h.buckets[bucket_page_id], key)
  IN [ bpm |-> fb.bpm, ht |-> fb.ht, fetched |-> fb.ok, ok |-> g.ok, result |-> g.result ]

SplitInsert(h, key, value) == FALSE

HashTableInsert(b, h, key, value) ==
  LET page_directory == FetchDirectoryPage(h)
      dir_index == KeyToDirectoryIndex(key, page_directory)
      local_depth == GetLocalDepth(page_directory, dir_index)
      g == GetGlobalDepth(b, h)
  IN IF local_depth < g.global_depth
     THEN LET bucket_page_id == KeyToPageId(key, page_directory)
              fb == FetchBucketPage(g.bpm, g.ht, bucket_page_id)
              bi == BucketInsert(h.buckets[bucket_page_id], key, value)
              h1 == [fb.ht EXCEPT !.buckets[bucket_page_id] = bi.bucket]
          IN IF bi.ok
             THEN [ bpm |-> fb.bpm, ht |-> h1, fetched |-> fb.ok, ok |-> TRUE ]
             ELSE [ bpm |-> fb.bpm,
                    ht |-> [h1 EXCEPT !.dir.local_depths[dir_index] = @ + 1],
                    fetched |-> fb.ok, ok |-> SplitInsert(h1, key, value) ]
     ELSE LET d1 == IncrGlobalDepth(page_directory)
              h1 == [g.ht EXCEPT !.dir = [d1 EXCEPT !.local_depths[dir_index] = @ + 1]]
          IN [ bpm |-> g.bpm, ht |-> h1, fetched |-> TRUE, ok |-> SplitInsert(h1, key, value) ]

HashTableRemove(b, h, key, value) == [ bpm |-> b, ht |-> h, ok |-> FALSE ]

\* ------------------------------------------------------------------ caller
\* The record of a call: what was called, with what, and what it returned.
Call(op, page_id, is_dirty, r) ==
  [op |-> op, page_id |-> page_id, is_dirty |-> is_dirty, ok |-> r.ok, frame |-> r.frame]

Dec(n) == IF n > 0 THEN n - 1 ELSE 0

\* Two threads calling fetch_page(page_id) on the instance at the same time.
NoThread == 0
InitThr ==
  [ pc      |-> [t \in Threads |-> "idle"],   \* idle, lock, lookup, load, done
    latch   |-> NoThread,                     \* the holder of latch_
    page_id |-> INVALID_PAGE_ID,              \* the page both threads fetch
    ret     |-> [t \in Threads |-> NoFrame],  \* the frame each call returned
    reads   |-> 0,                            \* disk reads made by the two calls
    pin0    |-> 0,                            \* the page's pin count before them
    avail   |-> FALSE ]                       \* the page was resident or a frame was available
InitPool == ParallelBufferPoolManager(NumPoolInstances, PoolInstanceSize)
\* Threads calling the pool: where each one is in its call, the call and its
\* arguments, the instance it is at, and the holder of every latch_.
InitLat ==
  [ pc         |-> [t \in Threads |-> "idle"],
    op         |-> [t \in Threads |-> "none"],
    page_id    |-> [t \in Threads |-> INVALID_PAGE_ID],
    is_dirty   |-> [t \in Threads |-> FALSE],
    instance   |-> [t \in Threads |-> 0],
    tries      |-> [t \in Threads |-> 0],
    ok         |-> [t \in Threads |-> FALSE],
    pool_latch |-> NoThread,
    bpm_latch  |-> [i \in 0 .. (NumPoolInstances - 1) |-> NoThread],
    rep_latch  |-> [i \in 0 .. (NumPoolInstances - 1) |-> NoThread] ]
\* An LRUReplacer(RepSize) on its own.  order lists the tracked frames by the
\* time they entered, earliest first; recency lists them by the time of
\* their last Unpin, oldest first.
RepFrames == 0 .. (RepSize - 1)
InitRep == [lru |-> << >>, order |-> << >>, recency |-> << >>]

\* One more call on the single instance; nothing else moves.
Count == calls < MaxCalls /\ calls' = calls + 1 /\ UNCHANGED <<thr, pool, rep, ht, lat>>

Init ==
  /\ bpm = InitBpm
  /\ last = [op |-> "init", page_id |-> INVALID_PAGE_ID, is_dirty |-> FALSE,
             ok |-> TRUE, frame |-> NoFrame]
  /\ pins = [p \in PageIds |-> 0]
  /\ handle = [p \in PageIds |-> NoFrame]
  /\ pending = [p \in PageIds |-> NoData]
  /\ wbytes = [p \in PageIds |-> NoData]
  /\ calls = 0
  /\ thr = InitThr
  /\ pool = InitPool
  /\ rep = InitRep
  /\ ht = InitHt
  /\ lat = InitLat

NewPage ==
  /\ Count
  /\ bpm.next_page_id <= MaxPageId
  /\ LET r == NewPgImp(bpm)
     IN /\ pins[r.page_id] < MaxPin
        /\ bpm' = r.bpm
        /\ last' = Call("new", r.page_id, FALSE, r)
        /\ pins' = IF r.ok THEN [pins EXCEPT ![r.page_id] = @ + 1] ELSE pins
        /\ handle' = IF r.ok THEN [handle EXCEPT ![r.page_id] = r.frame] ELSE handle
        /\ UNCHANGED <<pending, wbytes>>

FetchPage(page_id) ==
  /\ Count
  /\ pins[page_id] < MaxPin
  /\ Resident(bpm.page_table, page_id)
       => bpm.pages[bpm.page_table[page_id]].pin_count < MaxPin
  /\ LET r == FetchPgImp(bpm, page_id)
     IN /\ bpm' = r.bpm
        /\ last' = Call("fetch", page_id, FALSE, r)
        /\ pins' = IF r.ok THEN [pins EXCEPT ![page_id] = @ + 1] ELSE pins
        /\ handle' = IF r.ok THEN [handle EXCEPT ![page_id] = r.frame] ELSE handle
        /\ UNCHANGED <<pending, wbytes>>

UnpinPage(page_id, is_dirty) ==
  LET r == UnpinPgImp(bpm, page_id, is_dirty)
  IN /\ Count
     /\ bpm' = r.bpm
     /\ last' = Call("unpin", page_id, is_dirty, r)
     /\ pins' = IF r.ok THEN [pins EXCEPT ![page_id] = Dec(@)] ELSE pins
     /\ pending' = IF r.ok THEN [pending EXCEPT ![page_id] = NoData] ELSE pending
     /\ wbytes' = IF r.ok /\ pending[page_id] # NoData
                  THEN [wbytes EXCEPT ![page_id] = IF is_dirty THEN pending[page_id] ELSE NoData]
                  ELSE wbytes
     /\ UNCHANGED handle

FlushPage(page_id) ==
  LET r == FlushPgImp(bpm, page_id)
  IN /\ Count
     /\ bpm' = r.bpm
     /\ last' = Call("flush", page_id, FALSE, r)
     /\ UNCHANGED <<pins, handle, pending, wbytes>>

FlushAllPages ==
  \E S \in SUBSET (DOMAIN bpm.page_table) :
    /\ Count
    /\ (S = {}) <=> (DOMAIN bpm.page_table = {})
    /\ LET r == FlushAllPgsImp(bpm, S)
       IN /\ bpm' = r.bpm
          /\ last' = Call("flush_all", INVALID_PAGE_ID, FALSE, r)
          /\ UNCHANGED <<pins, handle, pending, wbytes>>

DeletePage(page_id) ==
  LET r == DeletePgImp(bpm, page_id)
  IN /\ Count
     /\ Len(r.bpm.free_list) <= MaxFree
     /\ bpm' = r.bpm
     /\ last' = Call("delete", page_id, FALSE, r)
     /\ wbytes' = IF r.ok THEN [wbytes EXCEPT ![page_id] = NoData] ELSE wbytes
     /\ UNCHANGED <<pins, handle, pending>>

\* The caller writes d into the frame it was handed for page_id, while it
\* holds a pin on page_id.
WriteData(page_id, d) ==
  /\ Count
  /\ pins[page_id] > 0
  /\ handle[page_id] # NoFrame
  /\ bpm' = [bpm EXCEPT !.pages[handle[page_id]].data = d]
  /\ last' = [op |-> "write", page_id |-> page_id, is_dirty |-> FALSE,
              ok |-> TRUE, frame |-> handle[page_id]]
  /\ pending' = [pending EXCEPT ![page_id] = d]
  /\ UNCHANGED <<pins, handle, wbytes>>

\* Any caller: every call with every argument.
AnyCaller == calls < MaxAnyCalls

AnyNew == AnyCaller /\ NewPage
AnyFetch(p) == AnyCaller /\ FetchPage(p)
AnyUnpin(p, d) == AnyCaller /\ UnpinPage(p, d)
AnyFlush(p) == AnyCaller /\ FlushPage(p)
AnyFlushAll == AnyCaller /\ FlushAllPages
AnyDelete(p) == AnyCaller /\ DeletePage(p)

Next ==
  \/ AnyNew
  \/ \E p \in PageIds : AnyFetch(p)
  \/ \E p \in PageIds, d \in BOOLEAN : AnyUnpin(p, d)
  \/ \E p \in PageIds : AnyFlush(p)
  \/ AnyFlushAll
  \/ \E p \in PageIds : AnyDelete(p)

Spec == Init /\ [][Next]_vars

\* A disciplined caller: it names only page ids new_page has handed out, it
\* unpins only pages it holds a pin on, and it writes only into pinned pages.
Allocated(p) == p < bpm.next_page_id

Fetch(p) == Allocated(p) /\ FetchPage(p)
Unpin(p, d) == Allocated(p) /\ pins[p] > 0 /\ UnpinPage(p, d)
Flush(p) == Allocated(p) /\ FlushPage(p)
Delete(p) == Allocated(p) /\ DeletePage(p)

NextD ==
  \/ NewPage
  \/ \E p \in PageIds : Fetch(p)
  \/ \E p \in PageIds, d \in BOOLEAN : Unpin(p, d)
  \/ \E p \in PageIds : Flush(p)
  \/ FlushAllPages
  \/ \E p \in PageIds : Delete(p)
  \/ \E p \in PageIds, d \in Data : WriteData(p, d)

SpecD == Init /\ [][NextD]_vars

\* The disciplined caller restricted to new_page / fetch_page / unpin_page
\* and its writes.
NextRW ==
  \/ NewPage
  \/ \E p \in PageIds : Fetch(p)
  \/ \E p \in PageIds, d \in BOOLEAN : Unpin(p, d)
  \/ \E p \in PageIds, d \in Data : WriteData(p, d)

SpecRW == Init /\ [][NextRW]_vars

\* ------------------------------ a caller of the ParallelBufferPoolManager
\* It names only page ids new_page has handed out and unpins only pages it
\* holds a pin on.
PoolCount == calls < MaxPoolCalls /\ calls' = calls + 1
PoolOnly == UNCHANGED <<bpm, handle, pending, wbytes, thr, rep, ht, lat>>
PoolAllocated(p) == p < pool.managers[GetBufferPoolManager(pool, p)].next_page_id

\* Page ids 0..MaxPageId exist: an instance that would hand out a frame must
\* still have one of them to allocate.
IdsLeft ==
  \A i \in DOMAIN pool.managers :
    LET b == pool.managers[i]
    IN b.next_page_id <= MaxPageId \/ (b.free_list = << >> /\ b.lru = << >>)

PoolNew ==
  /\ PoolCount
  /\ IdsLeft
  /\ LET r == PoolNewPgImp(pool)
     IN /\ r.ok => pins[r.page_id] < MaxPin
        /\ pool' = r.pool
        /\ last' = Call("pnew", r.page_id, FALSE, r)
        /\ pins' = IF r.ok THEN [pins EXCEPT ![r.page_id] = @ + 1] ELSE pins
  /\ PoolOnly

PoolFetch(page_id) ==
  /\ PoolCount
  /\ PoolAllocated(page_id)
  /\ pins[page_id] < MaxPin
  /\ LET r == PoolFetchPgImp(pool, page_id)
     IN /\ pool' = r.pool
        /\ last' = Call("pfetch", page_id, FALSE, r)
        /\ pins' = IF r.ok THEN [pins EXCEPT ![page_id] = @ + 1] ELSE pins
  /\ PoolOnly

PoolUnpin(page_id, is_dirty) ==
  /\ PoolCount
  /\ PoolAllocated(page_id)
  /\ pins[page_id] > 0
  /\ LET r == PoolUnpinPgImp(pool, page_id, is_dirty)
     IN /\ pool' = r.pool
        /\ last' = Call("punpin", page_id, is_dirty, r)
        /\ pins' = IF r.ok THEN [pins EXCEPT ![page_id] = Dec(@)] ELSE pins
  /\ PoolOnly

PoolFlush(page_id) ==
  /\ PoolCount
  /\ PoolAllocated(page_id)
  /\ LET r == PoolFlushPgImp(pool, page_id)
     IN pool' = r.pool /\ last' = Call("pflush", page_id, FALSE, r)
  /\ UNCHANGED pins
  /\ PoolOnly

PoolFlushAll ==
  /\ PoolCount
  /\ pool' \in PoolFlushAllPgsImp(pool, 0)
  /\ last' = [op |-> "pflush_all", page_id |-> INVALID_PAGE_ID, is_dirty |-> FALSE,
              ok |-> TRUE, frame |-> NoFrame]
  /\ UNCHANGED pins
  /\ PoolOnly

PoolDelete(page_id) ==
  /\ PoolCount
  /\ PoolAllocated(page_id)
  /\ LET r == PoolDeletePgImp(pool, page_id)
     IN /\ Len(r.pool.managers[GetBufferPoolManager(pool, page_id)].free_list) <= MaxFree
        /\ pool' = r.pool
        /\ last' = Call("pdelete", page_id, FALSE, r)
  /\ UNCHANGED pins
  /\ PoolOnly

NextP ==
  \/ PoolNew
  \/ \E p \in PageIds : PoolFetch(p)
  \/ \E p \in PageIds, d \in BOOLEAN : PoolUnpin(p, d)
  \/ \E p \in PageIds : PoolFlush(p)
  \/ PoolFlushAll
  \/ \E p \in PageIds : PoolDelete(p)

SpecP == Init /\ [][NextP]_vars

\* ------------------------------------------------- a caller of LRUReplacer
RepCount == calls < MaxRepCalls /\ calls' = calls + 1
RepOnly == UNCHANGED <<bpm, pins, handle, pending, wbytes, thr, pool, ht, lat>>
RepCall(op, f, ok) ==
  [op |-> op, page_id |-> INVALID_PAGE_ID, is_dirty |-> FALSE, ok |-> ok, frame |-> f]

RepUnpin(f) ==
  /\ RepCount
  /\ rep' = [rep EXCEPT
        !.lru = ReplacerUnpin(@, f, RepSize),
        !.order = IF InLru(@, f) THEN @ ELSE Append(@, f),
        !.recency = Append(Without(@, f), f)]
  /\ last' = RepCall("runpin", f, TRUE)
  /\ RepOnly

RepPin(f) ==
  /\ RepCount
  /\ rep' = [rep EXCEPT
        !.lru = ReplacerPin(@, f),
        !.order = Without(@, f),
        !.recency = Without(@, f)]
  /\ last' = RepCall("rpin", f, TRUE)
  /\ RepOnly

RepVictim ==
  /\ RepCount
  /\ LET v == Victim(rep.lru)
     IN /\ rep' = [rep EXCEPT
              !.lru = v.lru,
              !.order = IF @ = << >> THEN @ ELSE Tail(@),
              !.recency = Without(@, v.frame)]
        /\ last' = RepCall("victim", v.frame, v.ok)
  /\ RepOnly

NextLRU ==
  \/ \E f \in RepFrames : RepUnpin(f)
  \/ \E f \in RepFrames : RepPin(f)
  \/ RepVictim

SpecLRU == Init /\ [][NextLRU]_vars

\* ------------------------------------------- a caller of the hash table
\* The table is built on a pool in which another client has page 0: the
\* directory's bucket_page_ids_ are all 0 and no bucket page is ever
\* allocated, so every bucket the table fetches is that page, whatever bytes
\* it holds.  (Built on an unused pool the directory page itself is page 0,
\* and bucket and directory overlay the same bytes.)
HtCount == calls < MaxHtCalls /\ calls' = calls + 1
HtOnly == UNCHANGED <<pins, handle, pending, wbytes, thr, pool, rep, lat>>
HtLast(op, key, value, ok, result) ==
  [op |-> op, page_id |-> INVALID_PAGE_ID, is_dirty |-> FALSE, ok |-> ok, frame |-> NoFrame,
   key |-> key, value |-> value, result |-> result]

BucketBytes ==
  [occupied : SUBSET Slots, readable : SUBSET Slots, array : [Slots -> Keys \X Values]]

OtherNew == ~ht.constructed /\ bpm.next_page_id = 0 /\ NewPage

HtConstruct(bytes) ==
  /\ HtCount
  /\ ~ht.constructed
  /\ bpm.next_page_id > 0
  /\ LET r == HashTableConstructor(bpm, ht, bytes)
     IN /\ r.ok
        /\ bpm' = r.bpm
        /\ ht' = r.ht
        /\ last' = HtLast("ht_new", 0, 0, TRUE, {})
  /\ HtOnly

\* The function has no return statement for local_depth > global_depth.
HtInsert(key, value) ==
  /\ HtCount
  /\ ht.constructed
  /\ ht.dir.global_depth < MaxDepth
  /\ GetLocalDepth(ht.dir, KeyToDirectoryIndex(key, ht.dir)) <= ht.dir.global_depth
  /\ GetGlobalDepth(bpm, ht).ok
  /\ LET r == HashTableInsert(bpm, ht, key, value)
     IN /\ r.fetched
        /\ bpm' = r.bpm
        /\ ht' = [r.ht EXCEPT
              !.present = IF r.ok THEN @ \cup {<<key, value>>} ELSE @,
              !.removed = IF r.ok THEN @ \ {<<key, value>>} ELSE @]
        /\ last' = HtLast("ht_insert", key, value, r.ok, {})
  /\ HtOnly

HtGetValue(key) ==
  /\ HtCount
  /\ ht.constructed
  /\ LET r == HashTableGetValue(bpm, ht, key)
     IN /\ r.fetched
        /\ bpm' = r.bpm
        /\ ht' = r.ht
        /\ last' = HtLast("ht_get", key, 0, r.ok, r.result)
  /\ HtOnly

HtRemove(key, value) ==
  /\ HtCount
  /\ ht.constructed
  /\ LET r == HashTableRemove(bpm, ht, key, value)
     IN /\ bpm' = r.bpm
        /\ ht' = [r.ht EXCEPT !.present = @ \ {<<key, value>>},
                               !.removed = @ \cup {<<key, value>>}]
        /\ last' = HtLast("ht_remove", key, value, r.ok, {})
  /\ HtOnly

HtGetGlobalDepth ==
  /\ HtCount
  /\ ht.constructed
  /\ LET r == GetGlobalDepth(bpm, ht)
     IN /\ r.ok
        /\ bpm' = r.bpm
        /\ ht' = r.ht
        /\ last' = HtLast("ht_depth", 0, 0, TRUE, {})
  /\ HtOnly

NextH ==
  \/ OtherNew
  \/ \E bytes \in BucketBytes : HtConstruct(bytes)
  \/ \E k \in Keys, v \in Values : HtInsert(k, v)
  \/ \E k \in Keys : HtGetValue(k)
  \/ \E k \in Keys, v \in Values : HtRemove(k, v)
  \/ HtGetGlobalDepth

SpecH == Init /\ [][NextH]_vars

\* ------------------------------------------------- two concurrent fetches
\* std::lock_guard<std::mutex> guard(latch_): blocks until latch_ is free.
Acquire_NoWait(latch) == TRUE

Acquire(latch) == latch = NoThread

Release(latch, t) == IF latch = t THEN NoThread ELSE latch

Idle == \A t \in Threads : thr.pc[t] = "idle"
Setup == Idle /\ calls < MaxSetup

SetupNew == Setup /\ NewPage
SetupFetch(p) == Setup /\ Fetch(p)
SetupUnpin(p, d) == Setup /\ Unpin(p, d)
SetupFlush(p) == Setup /\ Flush(p)

StartFetches(p) ==
  /\ Idle
  /\ thr' = [InitThr EXCEPT
        !.pc = [t \in Threads |-> "lock"],
        !.page_id = p,
        !.pin0 = IF Resident(bpm.page_table, p)
                 THEN bpm.pages[bpm.page_table[p]].pin_count ELSE 0,
        !.avail = \/ Resident(bpm.page_table, p)
                  \/ bpm.free_list # << >>
                  \/ bpm.lru # << >>]
  /\ UNCHANGED <<bpm, last, pins, handle, pending, wbytes, calls, pool, rep, ht, lat>>

Lock(t) ==
  /\ thr.pc[t] = "lock"
  /\ Acquire(thr.latch)
  /\ thr' = [thr EXCEPT !.pc[t] = "lookup", !.latch = t]
  /\ UNCHANGED <<bpm, last, pins, handle, pending, wbytes, calls, pool, rep, ht, lat>>

\* page_table_.find(page_id): on a hit the call pins the page and returns.
Lookup(t) ==
  /\ thr.pc[t] = "lookup"
  /\ IF Resident(bpm.page_table, thr.page_id)
     THEN LET r == FetchHit(bpm, thr.page_id)
          IN /\ bpm' = r.bpm
             /\ last' = Call("fetch", thr.page_id, FALSE, r)
             /\ thr' = [thr EXCEPT !.pc[t] = "done", !.ret[t] = r.frame,
                                   !.latch = Release(@, t)]
     ELSE /\ thr' = [thr EXCEPT !.pc[t] = "load"]
          /\ UNCHANGED <<bpm, last>>
  /\ UNCHANGED <<pins, handle, pending, wbytes, calls, pool, rep, ht, lat>>

\* On a miss the call takes a frame, reads the page into it and returns.
Load(t) ==
  /\ thr.pc[t] = "load"
  /\ LET r == FetchMiss(bpm, thr.page_id)
     IN /\ bpm' = r.bpm
        /\ last' = Call("fetch", thr.page_id, FALSE, r)
        /\ thr' = [thr EXCEPT !.pc[t] = "done", !.ret[t] = r.frame,
                              !.reads = IF r.ok THEN @ + 1 ELSE @,
                              !.latch = Release(@, t)]
  /\ UNCHANGED <<pins, handle, pending, wbytes, calls, pool, rep, ht, lat>>

NextMT ==
  \/ SetupNew
  \/ \E p \in PageIds : SetupFetch(p)
  \/ \E p \in PageIds, d \in BOOLEAN : SetupUnpin(p, d)
  \/ \E p \in PageIds : SetupFlush(p)
  \/ \E p \in PageIds : StartFetches(p)
  \/ \E t \in Threads : Lock(t)
  \/ \E t \in Threads : Lookup(t)
  \/ \E t \in Threads : Load(t)

SpecMT == Init /\ [][NextMT]_vars

\* --------------------------------------------- threads calling the pool
\* Each thread makes one call at a time on the ParallelBufferPoolManager
\* ("pnew", "pfetch", ...) or on one of its instances ("new": NewPage of
\* instance i; the other operations of an instance are what the pool's
\* routed calls run).  A call is taken step by step through its lock_guards:
\*   pool_latch  waiting for ParallelBufferPoolManager::latch_  (NewPgImp only)
\*   bpm_latch   waiting for latch_ of the instance
\*   body        inside the instance's operation, which calls no replacer method
\*   rep_latch   inside it, waiting for the replacer's latch_
\*   replacer    inside Victim or Unpin of the replacer
\*   return      the instance's operation returns: its lock_guard goes
\*   lost        inside FlushAllPgsImp, whose loop did not come back
\*   pool_return NewPgImp of the pool returns: its lock_guard goes
\* Whether the operation, run on instance b, calls Victim or Unpin of the
\* replacer (it does so holding latch_).
CallsReplacer(op, b, page_id) ==
  CASE op \in {"pnew", "new"} -> b.free_list = << >>
    [] op = "pfetch" -> ~Resident(b.page_table, page_id) /\ b.free_list = << >>
    [] op = "punpin" -> b.pages[Subscript(b.page_table, page_id)[page_id]].pin_count > 0
    [] OTHER -> FALSE

\* What the operation may return and leave of instance b.
InstanceOp(op, b, page_id, is_dirty) ==
  CASE op \in {"pnew", "new"} -> {NewPgImp(b)}
    [] op = "pfetch" -> {FetchPgImp(b, page_id)}
    [] op = "punpin" -> {UnpinPgImp(b, page_id, is_dirty)}
    [] op = "pflush" -> {FlushPgImp(b, page_id)}
    [] op = "pdelete" -> {DeletePgImp(b, page_id)}
    [] op = "pflush_all" -> {FlushAllPgsImp(b, S) : S \in Visited(b)}

LatchCount == calls < MaxLatchCalls /\ calls' = calls + 1
LatchOnly == UNCHANGED <<bpm, last, pins, handle, pending, wbytes, thr, rep, ht>>

\* The calls in progress that may still allocate a page id on instance i.
Allocating(i) ==
  Cardinality({t \in Threads :
    /\ lat.pc[t] # "idle"
    /\ lat.op[t] = "pnew" \/ (lat.op[t] = "new" /\ lat.instance[t] = i)})

\* Thread t calls op; i is the instance the call goes to first.
CallOp(t, op, page_id, is_dirty, i) ==
  /\ lat.pc[t] = "idle"
  /\ LatchCount
  /\ lat' = [lat EXCEPT
       !.pc[t] = IF op = "pnew" THEN "pool_latch" ELSE "bpm_latch",
       !.op[t] = op,
       !.page_id[t] = page_id,
       !.is_dirty[t] = is_dirty,
       !.instance[t] = i,
       !.tries[t] = IF op \in {"pnew", "pflush_all"} THEN pool.num_instances ELSE 1]
  /\ UNCHANGED pool
  /\ LatchOnly

\* Page ids 0..MaxPageId exist: a call that allocates must find one left.
CallPoolNew(t) ==
  /\ \A i \in DOMAIN pool.managers :
       pool.managers[i].next_page_id + pool.num_instances * Allocating(i) <= MaxPageId
  /\ CallOp(t, "pnew", INVALID_PAGE_ID, FALSE, 0)

CallNew(t, i) ==
  /\ pool.managers[i].next_page_id + pool.num_instances * Allocating(i) <= MaxPageId
  /\ CallOp(t, "new", INVALID_PAGE_ID, FALSE, i)

\* The other calls name page ids that have been allocated.
CallFetch(t, p) ==
  PoolAllocated(p) /\ CallOp(t, "pfetch", p, FALSE, GetBufferPoolManager(pool, p))
CallUnpin(t, p, d) ==
  PoolAllocated(p) /\ CallOp(t, "punpin", p, d, GetBufferPoolManager(pool, p))
CallFlush(t, p) ==
  PoolAllocated(p) /\ CallOp(t, "pflush", p, FALSE, GetBufferPoolManager(pool, p))
CallDelete(t, p) ==
  PoolAllocated(p) /\ CallOp(t, "pdelete", p, FALSE, GetBufferPoolManager(pool, p))
CallFlushAll(t) == CallOp(t, "pflush_all", INVALID_PAGE_ID, FALSE, 0)

\* std::lock_guard<std::mutex> guard(latch_) of the pool's NewPgImp.
AcquirePool(t) ==
  /\ lat.pc[t] = "pool_latch"
  /\ Acquire(lat.pool_latch)
  /\ lat' = [lat EXCEPT !.pool_latch = t, !.pc[t] = "bpm_latch",
                        !.instance[t] = pool.next_instance]
  /\ pool' = [pool EXCEPT !.new_calls = @ + 1, !.start = pool.next_instance]
  /\ UNCHANGED calls
  /\ LatchOnly

\* std::lock_guard<std::mutex> guard(latch_) of the instance's operation.
AcquireInstance(t) ==
  LET i == lat.instance[t]
  IN /\ lat.pc[t] = "bpm_latch"
     /\ Acquire(lat.bpm_latch[i])
     /\ lat' = [lat EXCEPT
          !.bpm_latch[i] = t,
          !.pc[t] = IF CallsReplacer(lat.op[t], pool.managers[i], lat.page_id[t])
                    THEN "rep_latch" ELSE "body"]
     /\ UNCHANGED <<pool, calls>>
     /\ LatchOnly

\* The operation's effect on its instance, made under the instance's latch_.
Effect(t, pc) ==
  LET i == lat.instance[t]
  IN \E r \in InstanceOp(lat.op[t], pool.managers[i], lat.page_id[t], lat.is_dirty[t]) :
       /\ pool' = [pool EXCEPT !.managers[i] = r.bpm]
       /\ lat' = [lat EXCEPT !.pc[t] = pc, !.ok[t] = r.ok,
                             !.rep_latch[i] = Release(@, t)]

Body(t) ==
  /\ lat.pc[t] = "body"
  /\ Effect(t, "return")
  /\ UNCHANGED calls
  /\ LatchOnly

\* The loop of FlushAllPgsImp erases the element its iterator points at and
\* then advances that iterator (undefined behaviour).  Besides coming back
\* having visited some of the entries (Body), the loop may not come back at
\* all: the read of the freed node faults or leads the loop astray, and the
\* call neither returns nor unlocks latch_.
Lost(t) ==
  /\ lat.pc[t] = "body"
  /\ lat.op[t] = "pflush_all"
  /\ DOMAIN pool.managers[lat.instance[t]].page_table # {}
  /\ lat' = [lat EXCEPT !.pc[t] = "lost"]
  /\ UNCHANGED <<pool, calls>>
  /\ LatchOnly

\* std::lock_guard<std::mutex> guard(latch_) of Victim and of Unpin.
AcquireReplacer(t) ==
  LET i == lat.instance[t]
  IN /\ lat.pc[t] = "rep_latch"
     /\ Acquire(lat.rep_latch[i])
     /\ lat' = [lat EXCEPT !.rep_latch[i] = t, !.pc[t] = "replacer"]
     /\ UNCHANGED <<pool, calls>>
     /\ LatchOnly

\* The replacer's method returns and the operation runs to its end.
ReplacerReturn(t) ==
  /\ lat.pc[t] = "replacer"
  /\ Effect(t, "return")
  /\ UNCHANGED calls
  /\ LatchOnly

\* The call is over: the thread is as it was before it.
Returned(l, t) ==
  [l EXCEPT !.pc[t] = "idle", !.op[t] = "none", !.page_id[t] = INVALID_PAGE_ID,
            !.is_dirty[t] = FALSE, !.instance[t] = 0, !.tries[t] = 0, !.ok[t] = FALSE]

\* The instance's operation returns.  The pool's NewPgImp then advances
\* next_instance_ and returns or goes round its loop; its FlushAllPgsImp goes
\* on to the next instance.
ReturnInstance(t) ==
  LET i == lat.instance[t]
      l == [lat EXCEPT !.bpm_latch[i] = Release(@, t)]
      next == (pool.next_instance + 1) % pool.num_instances
  IN /\ lat.pc[t] = "return"
     /\ IF lat.op[t] = "pnew"
        THEN /\ pool' = [pool EXCEPT !.next_instance = next]
             /\ lat' = IF lat.ok[t] \/ lat.tries[t] = 1
                       THEN [l EXCEPT !.pc[t] = "pool_return"]
                       ELSE [l EXCEPT !.pc[t] = "bpm_latch", !.instance[t] = next,
                                      !.tries[t] = @ - 1]
        ELSE /\ pool' = pool
             /\ lat' = IF lat.op[t] = "pflush_all" /\ lat.tries[t] > 1
                       THEN [l EXCEPT !.pc[t] = "bpm_latch", !.instance[t] = i + 1,
                                      !.tries[t] = @ - 1]
                       ELSE Returned(l, t)
     /\ UNCHANGED calls
     /\ LatchOnly

\* NewPgImp of the pool returns.
ReturnPool(t) ==
  /\ lat.pc[t] = "pool_return"
  /\ lat' = Returned([lat EXCEPT !.pool_latch = Release(@, t)], t)
  /\ UNCHANGED <<pool, calls>>
  /\ LatchOnly

\* A step of thread t inside its call.
Proceed(t) ==
  \/ AcquirePool(t)
  \/ AcquireInstance(t)
  \/ Body(t)
  \/ Lost(t)
  \/ AcquireReplacer(t)
  \/ ReplacerReturn(t)
  \/ ReturnInstance(t)
  \/ ReturnPool(t)

NextL ==
  \/ \E t \in Threads : CallPoolNew(t)
  \/ \E t \in Threads, i \in DOMAIN pool.managers : CallNew(t, i)
  \/ \E t \in Threads, p \in PageIds : CallFetch(t, p)
  \/ \E t \in Threads, p \in PageIds, d \in BOOLEAN : CallUnpin(t, p, d)
  \/ \E t \in Threads, p \in PageIds : CallFlush(t, p)
  \/ \E t \in Threads, p \in PageIds : CallDelete(t, p)
  \/ \E t \in Threads : CallFlushAll(t)
  \/ \E t \in Threads : Proceed(t)

SpecL == Init /\ [][NextL]_vars

\* Fair scheduling: a thread that can go on in its call eventually does.
SpecLF == SpecL /\ \A t \in Threads : WF_vars(Proceed(t))

\* ------------------------------------------------------------------ claims
\* Abbreviations over one step: the call just made and the state before it.
Pid == last'.page_id
WasResident == Resident(bpm.page_table, Pid)
WasFrame == bpm.page_table[Pid]

\* C1: a frame whose page still has outstanding pins is never chosen as an
\* eviction victim, never has its bytes overwritten by a disk read of another
\* page, and never has another page id installed in it.
C1_PinnedFrameKept ==
  [][\A f \in Frames :
       LET p == bpm.pages[f].page_id
       IN (p \in PageIds /\ pins[p] > 0 /\ handle[p] = f)
            => /\ bpm'.pages[f].page_id = p
               /\ (last'.op # "write" => bpm'.pages[f].data = bpm.pages[f].data)]_vars

\* C2: bytes written into a page while it is pinned and then released with
\* unpin_page(id, true) are exactly the bytes a later fetch_page(id) returns;
\* when a frame is reused, the dirty page's bytes are written to disk before the
\* other page's bytes are read into the frame.
C2_FetchReturnsWrittenBytes ==
  [][/\ (last'.op = "fetch" /\ last'.ok /\ wbytes[Pid] # NoData /\ pending[Pid] = NoData)
          => bpm'.pages[last'.frame].data = wbytes[Pid]
     /\ (last'.op \in {"new", "fetch"} /\ last'.ok /\ ~WasResident
           /\ bpm.pages[last'.frame].is_dirty)
          => bpm'.disk[bpm.pages[last'.frame].page_id] = bpm.pages[last'.frame].data]_vars

\* C3: unpin_page on a resident page whose pin_count is n > 0 returns true and
\* leaves pin_count = n - 1; the frame is admitted to the replacer by that call
\* if and only if n - 1 = 0.
C3_UnpinDecrements ==
  [][(last'.op = "unpin" /\ WasResident /\ bpm.pages[WasFrame].pin_count > 0)
       => /\ last'.ok
          /\ bpm'.pages[WasFrame].pin_count = bpm.pages[WasFrame].pin_count - 1
          /\ (~InLru(bpm.lru, WasFrame) /\ InLru(bpm'.lru, WasFrame))
               <=> (bpm.pages[WasFrame].pin_count - 1 = 0)]_vars

\* C4: the unpin_page calls on a page that return true never outnumber the pins
\* taken on it, and unpin_page on a resident page with pin_count = 0 returns
\* false and changes no state.
C4_OverUnpinRejected ==
  [][(last'.op = "unpin" /\ WasResident)
       => /\ last'.ok => pins[Pid] > 0
          /\ (bpm.pages[WasFrame].pin_count = 0)
               => (~last'.ok /\ bpm' = bpm)]_vars

\* C5: new_page, and fetch_page of a non-resident page, return null if and
\* only if the free list is empty and no resident page is unpinned; whenever
\* the free list is non-empty the frame is taken from the free list and no
\* resident page is evicted.
C5_VictimPolicy ==
  [][(last'.op = "new" \/ (last'.op = "fetch" /\ ~WasResident))
       => /\ (~last'.ok) <=> /\ bpm.free_list = << >>
                             /\ ~\E p \in DOMAIN bpm.page_table : pins[p] = 0
          /\ bpm.free_list # << >>
               => /\ last'.frame = Head(bpm.free_list)
                  /\ \A p \in DOMAIN bpm.page_table :
                       /\ Resident(bpm'.page_table, p)
                       /\ bpm'.page_table[p] = bpm.page_table[p]]_vars

\* C6: every successful new_page leaves the returned page id installed in the
\* page table mapped to the returned frame, with pin_count = 1, is_dirty =
\* false, zeroed bytes, and the frame absent from the replacer.
C6_NewPageInstalled ==
  [][(last'.op = "new" /\ last'.ok)
       => /\ Resident(bpm'.page_table, Pid)
          /\ bpm'.page_table[Pid] = last'.frame
          /\ bpm'.pages[last'.frame] = LoadedPage(Pid, 0)
          /\ ~InLru(bpm'.lru, last'.frame)]_vars

\* C7: flush_page on a resident page returns true, writes the frame's bytes to
\* disk and leaves the page resident in the same frame with the same pin count
\* and is_dirty = false; flush_all_pages does so for every resident page.
Flushed(p) ==
  /\ bpm'.disk[p] = bpm.pages[bpm.page_table[p]].data
  /\ Resident(bpm'.page_table, p)
  /\ bpm'.page_table[p] = bpm.page_table[p]
  /\ bpm'.pages[bpm.page_table[p]] = [bpm.pages[bpm.page_table[p]] EXCEPT !.is_dirty = FALSE]

C7_FlushKeepsResident ==
  [][/\ (last'.op = "flush" /\ WasResident) => (last'.ok /\ Flushed(Pid))
     /\ last'.op = "flush_all" => \A p \in DOMAIN bpm.page_table : Flushed(p)]_vars

\* C8: unpin_page and flush_page on a page id that is not in the page table
\* return false and change nothing.
C8_NotResidentRejected ==
  [][(last'.op \in {"unpin", "flush"} /\ ~WasResident)
       => (~last'.ok /\ bpm' = bpm)]_vars

\* C9: delete_page on a resident page with pin_count > 0 returns false and
\* leaves all state unchanged, the set of deallocated page ids included.
C9_DeletePinnedNoChange ==
  [][(last'.op = "delete" /\ WasResident /\ bpm.pages[WasFrame].pin_count > 0)
       => (~last'.ok /\ bpm' = bpm)]_vars

\* C10: delete_page returns true when the page is not resident, and when it is
\* resident and every pin taken on it has been released; afterwards the page
\* is not in the page table and its frame is reset and on the free list.
C10_DeleteUnpinned ==
  [][last'.op = "delete"
       => /\ ~WasResident => (last'.ok /\ ~Resident(bpm'.page_table, Pid))
          /\ (WasResident /\ pins[Pid] = 0)
               => /\ last'.ok
                  /\ ~Resident(bpm'.page_table, Pid)
                  /\ bpm'.pages[WasFrame] = EmptyPage
                  /\ \E i \in 1 .. Len(bpm'.free_list) : bpm'.free_list[i] = WasFrame]_vars

\* C11: the dirty bit is sticky.  unpin_page(id, d) on a resident pinned page
\* leaves is_dirty = (old is_dirty or d), so unpin_page(id, false) after
\* unpin_page(id, true) leaves it true; and a frame's is_dirty goes from true
\* to false only in a flush, a delete, or a new_page / fetch_page that reuses
\* that frame.
C11_DirtySticky ==
  [][/\ (last'.op = "unpin" /\ last'.ok /\ WasResident)
          => bpm'.pages[WasFrame].is_dirty = (bpm.pages[WasFrame].is_dirty \/ last'.is_dirty)
     /\ \A f \in Frames :
          (bpm.pages[f].is_dirty /\ ~bpm'.pages[f].is_dirty)
            => \/ last'.op \in {"flush", "flush_all", "delete"}
               \/ (last'.op \in {"new", "fetch"} /\ last'.ok /\ last'.frame = f)]_vars

\* A page released dirty and then released clean is still dirty.
C11_Witness ==
  /\ last.op = "unpin" /\ last.ok /\ ~last.is_dirty
  /\ Resident(bpm.page_table, last.page_id)
  /\ bpm.pages[bpm.page_table[last.page_id]].is_dirty
  /\ bpm.pages[bpm.page_table[last.page_id]].page_id = last.page_id

\* C12: when two threads call fetch_page(id) on one instance at the same
\* time, id being resident or a frame being available, both calls return the
\* same frame, the page's pin count has gone up by exactly two, the page was
\* read from disk at most once, and the page table maps id to that frame.
C12_ConcurrentFetch ==
  ((\A t \in Threads : thr.pc[t] = "done") /\ thr.avail)
    => LET f == thr.ret[1]
       IN /\ f # NoFrame
          /\ thr.ret[2] = f
          /\ bpm.pages[f].pin_count = thr.pin0 + 2
          /\ thr.reads <= 1
          /\ Resident(bpm.page_table, thr.page_id)
          /\ bpm.page_table[thr.page_id] = f

\* Both calls have returned, and one of them had to read the page in.
C12_Witness ==
  /\ \A t \in Threads : thr.pc[t] = "done"
  /\ thr.avail
  /\ thr.reads = 1
  /\ thr.ret[1] = thr.ret[2]

\* C13: every new_page call on the pool starts at next_instance and leaves
\* next_instance advanced by exactly one (mod N), whatever the outcome and
\* however many instances it tried; so the k-th call starts at instance
\* (k - 1) mod N.
C13_RoundRobin ==
  [][last'.op = "pnew"
       => /\ pool'.next_instance = (pool.next_instance + 1) % pool.num_instances
          /\ pool.next_instance = pool.new_calls % pool.num_instances]_vars

\* C14: new_page on the pool returns null only if every instance has an empty
\* free list and no evictable frame (none in its replacer, none holding a page
\* without pins); if some instance can supply a frame the call succeeds, and
\* the returned page id p is held by instance p mod N, the one later calls on
\* p are routed to.
CanSupply(b) == b.free_list # << >> \/ b.lru # << >>

C15_StrictLru ==
  [][/\ last'.op = "victim"
          => IF rep.order = << >>
             THEN ~last'.ok
             ELSE /\ last'.ok
                  /\ last'.frame = Head(rep.order)
                  /\ ~InLru(rep'.lru, last'.frame)
     /\ \A f \in RepFrames : InLru(rep'.lru, f) <=> InLru(rep'.order, f)]_vars

\* A victim was returned while another frame stayed tracked.
C15_Witness ==
  /\ last.op = "victim" /\ last.ok
  /\ rep.lru # << >>
  /\ ~InLru(rep.lru, last.frame)

\* C16: a frame unpinned again, with no Pin in between, is more recent than
\* every frame whose last Unpin came earlier: Victim returns the frame whose
\* last Unpin is oldest, so after Unpin(a), Unpin(b), Unpin(a) it returns b.
C16_ReUnpinRefreshes ==
  [][(last'.op = "victim" /\ rep.recency # << >>)
       => (last'.ok /\ last'.frame = Head(rep.recency))]_vars

\* C16, as the code has it: Unpin of a frame that is already tracked changes
\* nothing, so the frame keeps the position of its first Unpin, and Victim
\* returns the frame that entered earliest even when another frame's last
\* Unpin is older: after Unpin(a), Unpin(b), Unpin(a) it returns a.
C16_ReUnpinKeepsPosition ==
  [][/\ (last'.op = "runpin" /\ InLru(rep.lru, last'.frame)) => rep'.lru = rep.lru
     /\ (last'.op = "victim" /\ rep.order # << >> /\ Head(rep.order) # Head(rep.recency))
          => (last'.ok /\ last'.frame = Head(rep.order))]_vars

\* A tracked frame was unpinned again, and it is still the next victim
\* although another frame's last Unpin is older.
C16_Witness ==
  /\ last.op = "runpin"
  /\ rep.order # << >>
  /\ Head(rep.order) = last.frame
  /\ Head(rep.recency) # last.frame
  /\ rep.lru[Len(rep.lru)] = last.frame

\* C17: after insert(k, v) has returned true, get_value(k) returns true and
\* its result contains v; after remove(k, v), get_value(k) does not contain
\* v; insert(k, v) of a pair that is present returns false and leaves the
\* table's contents unchanged.
C17_InsertGetRemove ==
  [][/\ last'.op = "ht_get"
          => /\ (\E v \in Values : <<last'.key, v>> \in ht.present) => last'.ok
             /\ \A v \in Values :
                  /\ <<last'.key, v>> \in ht.present => v \in last'.result
                  /\ <<last'.key, v>> \in ht.removed => v \notin last'.result
     /\ (last'.op = "ht_insert" /\ <<last'.key, last'.value>> \in ht.present)
          => (~last'.ok /\ ht'.buckets = ht.buckets /\ ht'.dir = ht.dir)]_vars

\* C18: get_value, insert and get_global_depth leave the number of pins the
\* table holds on every page as it was.
C18_PinBalanced ==
  [][last'.op \in {"ht_get", "ht_insert", "ht_depth"} => ht'.pins = ht.pins]_vars

\* C19: in every reachable state of the instance the free list and the page
\* table together account for every frame exactly once:
\* |free_list| + |page_table| = pool_size.
C19_FramesAccounted ==
  Len(bpm.free_list) + Cardinality(DOMAIN bpm.page_table) = bpm.pool_size

\* C20: in every reachable state no two page ids map to the same frame, every
\* page-table entry id -> f has frames[f].page_id = id, and every frame whose
\* page_id is not the sentinel has exactly one page-table entry pointing to it.
C20_PageTableConsistent ==
  /\ \A p, q \in DOMAIN bpm.page_table :
       bpm.page_table[p] = bpm.page_table[q] => p = q
  /\ \A p \in DOMAIN bpm.page_table : bpm.pages[bpm.page_table[p]].page_id = p
  /\ \A f \in DOMAIN bpm.pages :
       bpm.pages[f].page_id # INVALID_PAGE_ID
         => Cardinality({p \in DOMAIN bpm.page_table : bpm.page_table[p] = f}) = 1

\* C21: in every reachable state no frame is both on the free list and
\* tracked by the replacer.
OnFreeList(b, f) == \E i \in 1 .. Len(b.free_list) : b.free_list[i] = f

C21_FreeNotInReplacer ==
  \A f \in DOMAIN bpm.pages : ~(OnFreeList(bpm, f) /\ InLru(bpm.lru, f))

\* C22: in every reachable state no frame with pin_count > 0 is tracked by
\* the replacer.
C22_PinnedNotInReplacer ==
  \A f \in DOMAIN bpm.pages : bpm.pages[f].pin_count > 0 => ~InLru(bpm.lru, f)

\* C23: instance i of N allocates the page ids i, i + N, i + 2N, ... in this
\* order: its counter starts at i, every allocation returns the counter and
\* advances it by N, so every id it returns passes ValidatePageId; an id
\* new_page returns was never allocated before, by any instance of the pool.
C23_Allocation ==
  [][/\ \A i \in DOMAIN pool.managers :
          LET b == pool.managers[i]
              b1 == pool'.managers[i]
          IN /\ ValidatePageId(b.next_page_id, pool.num_instances, i)
             /\ ValidatePageId(b1.next_page_id, pool.num_instances, i)
             /\ b.next_page_id >= i
             /\ IF last'.op = "pnew"
                THEN b1.next_page_id \in {b.next_page_id, b.next_page_id + pool.num_instances}
                ELSE b1.next_page_id = b.next_page_id
     /\ (last'.op = "pnew" /\ last'.ok)
          => LET i == GetBufferPoolManager(pool, Pid)
             IN /\ Pid = pool.managers[i].next_page_id
                /\ ~PoolAllocated(Pid)
                /\ pool'.managers[i].next_page_id = Pid + pool.num_instances
                /\ ValidatePageId(Pid, pool.num_instances, i)]_vars

\* An instance has handed out its second page id.
C23_Witness ==
  /\ last.op = "pnew" /\ last.ok
  /\ last.page_id >= pool.num_instances
  /\ pool.managers[GetBufferPoolManager(pool, last.page_id)].next_page_id
       = last.page_id + pool.num_instances

\* C24: a new_page that fails (returns null) changes nothing of the instance:
\* page table, free list, replacer, frame metadata and next_page_id are as
\* before the call; so only a successful new_page consumes a page id.
C24_FailedNewPageChangesNothing ==
  [][/\ (last'.op = "new" /\ ~last'.ok) => bpm' = bpm
     /\ bpm'.next_page_id # bpm.next_page_id => (last'.op = "new" /\ last'.ok)]_vars

\* C25: under any interleaving of threads calling the pool and its
\* instances, a thread requests the pool's latch holding no latch, an
\* instance's latch holding no instance's or replacer's latch, and a
\* replacer's latch holding no replacer's latch and only the latch of its own
\* instance; no state is reached where calls are in progress and none of them
\* can take a step; and under fair scheduling every call returns.
HoldsBpm(t) == {i \in DOMAIN lat.bpm_latch : lat.bpm_latch[i] = t}
HoldsRep(t) == {i \in DOMAIN lat.rep_latch : lat.rep_latch[i] = t}

LatchOrder ==
  \A t \in Threads :
    /\ lat.pc[t] = "pool_latch"
         => lat.pool_latch # t /\ HoldsBpm(t) = {} /\ HoldsRep(t) = {}
    /\ lat.pc[t] = "bpm_latch" => HoldsBpm(t) = {} /\ HoldsRep(t) = {}
    /\ lat.pc[t] = "rep_latch"
         => HoldsRep(t) = {} /\ HoldsBpm(t) = {lat.instance[t]}
    /\ lat.pc[t] = "idle"
         => lat.pool_latch # t /\ HoldsBpm(t) = {} /\ HoldsRep(t) = {}

NoDeadlock ==
  (\E t \in Threads : lat.pc[t] # "idle")
    => \E t \in Threads : lat.pc[t] # "idle" /\ ENABLED Proceed(t)

====
